---- MODULE Spec2Model ----
(***************************************************************************)
(* Resilience layer of mcp-gateway: the circuit breaker and its registry   *)
(* (services/circuit_breaker.py), the dual-window rate limiter             *)
(* (services/rate_limiter.py), the pre-emptive auth manager                *)
(* (services/auth_manager.py) and the two tools of server.py that call a   *)
(* third-party API through a breaker.                                      *)
(*                                                                         *)
(* Time is a discrete clock `now` (one tick = one second of utcnow());     *)
(* timeouts and windows are scaled down to a few ticks.  The program runs  *)
(* on one asyncio event loop: a coroutine runs without interruption        *)
(* between two suspension points, so each action below is one such run.    *)
(***************************************************************************)
EXTENDS Integers, Sequences, FiniteSets, TLC

(* ------------------------------ bounds -------------------------------- *)
NumCallers == 2
MaxTime == 5
MaxFailureThreshold == 2
RecoveryTimeout == 2
MaxHalfOpenRequests == 2
MaxSuccessThreshold == 2
\* The tick at which the outage of the wrapped operation ends.
OutageEnd == 2
MaxPerDay == 2
MaxPerMinute == 2
DayTicks == 4
MinuteTicks == 2

Callers == 1..NumCallers

(* ------------------------------ state ---------------------------------- *)
VARIABLES
    now,      \* datetime.utcnow()
    \* one CircuitBreaker and the calls in flight through it
    config,   \* CircuitBreaker.config
    cb,       \* CircuitBreaker._state
    pc,       \* per caller: "idle", or how its in-flight call was admitted
    probes,   \* history: operations invoked in the current HALF_OPEN episode
    streak,   \* history: outcomes recorded in a row, [fail |-> n, succ |-> m]
    last,     \* history: the last step of call(): who, what the operation
              \* did (op), what call() gave its caller (ret), _state before,
              \* and how the call was admitted (how)
    \* the RateLimiter
    limits,   \* RateLimiter.limits
    locks,    \* RateLimiter._locks: per API, the acquire suspended in
              \* asyncio.sleep under the lock, if any
    granted,  \* history: acquires granted since the API's last day reset
    rlast,    \* history: the last step of acquire()
    \* the CircuitBreakerRegistry
    breakers, \* CircuitBreakerRegistry._breakers: name -> object id, 0 if absent
    objects,  \* the CircuitBreaker objects constructed so far, by object id
    handed,   \* history: the object ids get_or_create has returned, per name
    first,    \* history: the config each name's first call resolved to
    glast,    \* history: the last get_or_create call
    \* the PreemptiveAuthManager
    credentials_cache,   \* _credentials_cache: key -> None or a credential
    token_expiry_cache,  \* _token_expiry_cache: key -> None or an expiry
    disk,                \* the token files under token_dir, per key
    refresh_lock,        \* _refresh_lock: the caller holding it, 0 if free
    inflight,            \* per caller: where its get_credentials call stands
    issued,              \* access tokens handed out by Google so far
    alast,               \* history: how the last get_credentials call ended
    \* the tool layer (server.py, tools/)
    tbreakers,  \* _state of youtube_breaker and of trends_breaker
    tcalls,     \* per caller: where its tool call stands and what it did
    tlast,      \* history: how the last tool call ended
    started     \* history: tool calls started so far

cbVars == <<config, cb, pc, probes, streak, last>>
rlVars == <<limits, locks, granted, rlast>>
regVars == <<breakers, objects, handed, first, glast>>
authVars == <<credentials_cache, token_expiry_cache, disk, refresh_lock,
              inflight, issued, alast>>
toolVars == <<tbreakers, tcalls, tlast, started>>
vars == <<now, cbVars, rlVars, regVars, authVars, toolVars>>

(* class CircuitState *)
CLOSED == "closed"
OPEN == "open"
HALF_OPEN == "half_open"

(* Optional[datetime]: <<>> is None, <<t>> is the time t. *)
None == <<>>
Some(t) == <<t>>

(* The configurations a breaker is constructed with: each threshold and
   the probe budget at its smallest value, 1, and at its largest. *)
CircuitBreakerConfig ==
    [failure_threshold : {1, MaxFailureThreshold},
     recovery_timeout : {RecoveryTimeout},
     half_open_max_requests : {1, MaxHalfOpenRequests},
     success_threshold : {1, MaxSuccessThreshold}]

(* dataclass CircuitBreakerState with its defaults *)
CircuitBreakerState ==
    [state |-> CLOSED, failure_count |-> 0, success_count |-> 0,
     last_failure_time |-> None, half_open_request_count |-> 0]

(* ------------------------ CircuitBreaker methods ----------------------- *)
\* Each method is an operator from the breaker's _state (s), its config (c)
\* and the clock reading (t) to the new _state.

\* Mutant: the recovery test with > for >=.
Mut_should_attempt_recovery(s, c, t) ==
    IF s.state # OPEN THEN FALSE
    ELSE IF s.last_failure_time = None THEN TRUE
    ELSE t - s.last_failure_time[1] > c.recovery_timeout

_should_attempt_recovery(s, c, t) ==
    IF s.state # OPEN THEN FALSE
    ELSE IF s.last_failure_time = None THEN TRUE
    ELSE t - s.last_failure_time[1] >= c.recovery_timeout

\* Mutant: opening leaves the probe counter as it was.
Mut_transition_to_open(s) == [s EXCEPT !.state = OPEN]

_transition_to_open(s) ==
    [s EXCEPT !.state = OPEN, !.half_open_request_count = 0]

_transition_to_half_open(s) ==
    [s EXCEPT !.state = HALF_OPEN, !.half_open_request_count = 0,
              !.success_count = 0]

_transition_to_closed(s) ==
    [s EXCEPT !.state = CLOSED, !.failure_count = 0, !.success_count = 0,
              !.half_open_request_count = 0]

\* Mutant: the breaker closes one success late.
Mut_record_success(s, c) ==
    LET s1 == [s EXCEPT !.failure_count = 0] IN
    IF s1.state = HALF_OPEN
    THEN LET s2 == [s1 EXCEPT !.success_count = @ + 1] IN
         IF s2.success_count > c.success_threshold
         THEN _transition_to_closed(s2)
         ELSE s2
    ELSE s1

\* Mutant: a success leaves failure_count as it was.
Mut_record_success_keeps(s, c) ==
    IF s.state = HALF_OPEN
    THEN LET s2 == [s EXCEPT !.success_count = @ + 1] IN
         IF s2.success_count >= c.success_threshold
         THEN _transition_to_closed(s2)
         ELSE s2
    ELSE s

_record_success(s, c) ==
    LET s1 == [s EXCEPT !.failure_count = 0] IN
    IF s1.state = HALF_OPEN
    THEN LET s2 == [s1 EXCEPT !.success_count = @ + 1] IN
         IF s2.success_count >= c.success_threshold
         THEN _transition_to_closed(s2)
         ELSE s2
    ELSE s1

\* Mutant: the breaker opens one failure late.
Mut_record_failure_late(s, c, t) ==
    LET s1 == [s EXCEPT !.failure_count = @ + 1,
                        !.last_failure_time = Some(t),
                        !.success_count = 0] IN
    IF s1.state = HALF_OPEN THEN _transition_to_open(s1)
    ELSE IF s1.failure_count > c.failure_threshold THEN _transition_to_open(s1)
    ELSE s1

\* Mutant: a HALF_OPEN failure is counted like a CLOSED one.
Mut_record_failure_counted(s, c, t) ==
    LET s1 == [s EXCEPT !.failure_count = @ + 1,
                        !.last_failure_time = Some(t),
                        !.success_count = 0] IN
    IF s1.failure_count >= c.failure_threshold THEN _transition_to_open(s1)
    ELSE s1

_record_failure(s, c, t) ==
    LET s1 == [s EXCEPT !.failure_count = @ + 1,
                        !.last_failure_time = Some(t),
                        !.success_count = 0] IN
    IF s1.state = HALF_OPEN THEN _transition_to_open(s1)
    ELSE IF s1.failure_count >= c.failure_threshold THEN _transition_to_open(s1)
    ELSE s1

\* Mutant: the probe budget test with > for >=.
Mut_call_admission(s, c, t) ==
    LET rejectOpen == s.state = OPEN /\ ~_should_attempt_recovery(s, c, t)
        s1 == IF s.state = OPEN /\ _should_attempt_recovery(s, c, t)
              THEN _transition_to_half_open(s) ELSE s
    IN IF rejectOpen THEN [st |-> s, admitted |-> FALSE]
       ELSE IF s1.state = HALF_OPEN
       THEN IF s1.half_open_request_count > c.half_open_max_requests
            THEN [st |-> s1, admitted |-> FALSE]
            ELSE [st |-> [s1 EXCEPT !.half_open_request_count = @ + 1],
                  admitted |-> TRUE]
       ELSE [st |-> s1, admitted |-> TRUE]

\* The locked prologue of call(): the state after it and whether the
\* wrapped operation is going to be invoked.
call_admission(s, c, t) ==
    LET rejectOpen == s.state = OPEN /\ ~_should_attempt_recovery(s, c, t)
        s1 == IF s.state = OPEN /\ _should_attempt_recovery(s, c, t)
              THEN _transition_to_half_open(s) ELSE s
    IN IF rejectOpen THEN [st |-> s, admitted |-> FALSE]
       ELSE IF s1.state = HALF_OPEN
       THEN IF s1.half_open_request_count >= c.half_open_max_requests
            THEN [st |-> s1, admitted |-> FALSE]
            ELSE [st |-> [s1 EXCEPT !.half_open_request_count = @ + 1],
                  admitted |-> TRUE]
       ELSE [st |-> s1, admitted |-> TRUE]

\* Mutant: an operation's error is swallowed into the rejection outcome.
Mut_call_outcome(op) ==
    CASE op = "not_invoked" -> <<"None", "downgraded">>
      [] op = "returned" -> <<"result", "None">>
      [] op = "raised" -> <<"None", "downgraded">>
      [] op = "cancelled" -> <<"raise", "CancelledError">>
      [] OTHER -> <<"pending">>

(* Outcome of call() as its caller sees it, by what the wrapped operation
   did: the early returns, `return result, None`, the bare `raise`, and a
   CancelledError passing through `except Exception`. *)
call_outcome(op) ==
    CASE op = "not_invoked" -> <<"None", "downgraded">>
      [] op = "returned" -> <<"result", "None">>
      [] op = "raised" -> <<"raise", "error">>
      [] op = "cancelled" -> <<"raise", "CancelledError">>
      [] OTHER -> <<"pending">>

NoEvent == [op |-> "none", who |-> 0, ret |-> <<"none">>,
            pre |-> CircuitBreakerState, how |-> "idle"]

CBInit ==
    /\ config \in CircuitBreakerConfig
    /\ cb = CircuitBreakerState
    /\ pc = [p \in Callers |-> "idle"]
    /\ probes = 0
    /\ streak = [fail |-> 0, succ |-> 0]
    /\ last = NoEvent

\* Mutant: the operation is awaited inside `async with self._lock`.
Mut_holds_lock(at) == at # "idle"

\* Whether a call standing at `at` holds self._lock while it is suspended:
\* the only suspension point of call(), `await func(...)`, comes after the
\* `async with` block of the prologue has been left, and the locked
\* sections themselves do not await.
holds_lock(at) == FALSE

\* self._lock can be taken at once: no call in flight holds it.
lock_free == \A q \in Callers : ~holds_lock(pc[q])

\* In-flight probes of an episode that has ended are no longer current.
Retire(f, before, after) ==
    IF before.state = HALF_OPEN /\ after.state # HALF_OPEN
    THEN [q \in DOMAIN f |-> IF f[q] = "probe" THEN "stale" ELSE f[q]]
    ELSE f

\* call(): the locked prologue, up to `await func(...)` or the early return.
Call(p) ==
    /\ pc[p] = "idle"
    /\ lock_free
    /\ LET r == call_admission(cb, config, now)
           entered == cb.state = OPEN /\ r.st.state = HALF_OPEN
           op == IF r.admitted THEN "invoked" ELSE "not_invoked"
       IN /\ cb' = r.st
          /\ pc' = IF r.admitted
                   THEN [pc EXCEPT ![p] = IF r.st.state = HALF_OPEN
                                          THEN "probe" ELSE "direct"]
                   ELSE pc
          /\ probes' = IF r.admitted /\ r.st.state = HALF_OPEN
                       THEN (IF entered THEN 0 ELSE probes) + 1
                       ELSE IF entered THEN 0 ELSE probes
          /\ streak' = IF entered THEN [streak EXCEPT !.succ = 0] ELSE streak
          /\ last' = [op |-> op, who |-> p, ret |-> call_outcome(op),
                      pre |-> cb, how |-> pc'[p]]
    /\ UNCHANGED <<now, config, rlVars, regVars, authVars, toolVars>>

\* func returned: _record_success, then `return result, None`.
OpReturn(p) ==
    /\ pc[p] # "idle"
    /\ lock_free
    /\ cb' = _record_success(cb, config)
    /\ pc' = [Retire(pc, cb, cb') EXCEPT ![p] = "idle"]
    /\ streak' = [fail |-> 0,
                  succ |-> IF cb.state = HALF_OPEN THEN streak.succ + 1 ELSE 0]
    /\ last' = [op |-> "returned", who |-> p, ret |-> call_outcome("returned"),
                pre |-> cb, how |-> pc[p]]
    /\ UNCHANGED <<now, config, probes, rlVars, regVars, authVars, toolVars>>

\* func raised an Exception: _record_failure, then re-raise.
OpRaise(p) ==
    /\ pc[p] # "idle"
    /\ lock_free
    /\ cb' = _record_failure(cb, config, now)
    /\ pc' = [Retire(pc, cb, cb') EXCEPT ![p] = "idle"]
    /\ streak' = [fail |-> streak.fail + 1, succ |-> 0]
    /\ last' = [op |-> "raised", who |-> p, ret |-> call_outcome("raised"),
                pre |-> cb, how |-> pc[p]]
    /\ UNCHANGED <<now, config, probes, rlVars, regVars, authVars, toolVars>>

\* The task is cancelled while suspended in func: CancelledError is not an
\* Exception, so neither handler runs.
OpCancel(p) ==
    /\ pc[p] # "idle"
    /\ pc' = [pc EXCEPT ![p] = "idle"]
    /\ last' = [op |-> "cancelled", who |-> p,
                ret |-> call_outcome("cancelled"), pre |-> cb,
                how |-> pc[p]]
    /\ UNCHANGED <<now, config, cb, probes, streak, rlVars, regVars, authVars, toolVars>>

\* The clock advances; the history of the last step is of that instant only.
CBTick ==
    /\ now < MaxTime
    /\ now' = now + 1
    /\ last' = NoEvent
    /\ UNCHANGED <<config, cb, pc, probes, streak, rlVars, regVars, authVars, toolVars>>

CBNext ==
    \/ \E p \in Callers : Call(p)
    \/ \E p \in Callers : OpReturn(p)
    \/ \E p \in Callers : OpRaise(p)
    \/ \E p \in Callers : OpCancel(p)
    \/ CBTick


(* ============================ rate limiter ============================= *)
(* API_LIMITS: the configured API names.  Any other name is unlimited. *)
Apis == {"trends", "youtube_upload"}
OtherApi == "unlisted"

(* dataclass RateLimit as RateLimiter.__init__ builds it at time t. *)
RateLimit(perDay, perMinute, t) ==
    [requests_per_day |-> perDay, requests_per_minute |-> perMinute,
     current_day_count |-> 0, current_minute_count |-> 0,
     last_day_reset |-> t, last_minute_reset |-> t]

\* Mutant: only the daily window is rolled over.
Mut_roll_windows(l, t) ==
    IF t - l.last_day_reset > DayTicks
    THEN [l EXCEPT !.current_day_count = 0, !.last_day_reset = t]
    ELSE l

\* acquire(), lines 55-60: the two lazy window roll-overs.
roll_windows(l, t) ==
    LET l1 == IF t - l.last_day_reset > DayTicks
              THEN [l EXCEPT !.current_day_count = 0, !.last_day_reset = t]
              ELSE l
    IN IF t - l1.last_minute_reset > MinuteTicks
       THEN [l1 EXCEPT !.current_minute_count = 0, !.last_minute_reset = t]
       ELSE l1

\* acquire(), lines 71-72.
count_request(l) ==
    [l EXCEPT !.current_day_count = @ + 1, !.current_minute_count = @ + 1]

\* Mutant: the per-minute test comes before the daily one.
Mut_acquire_enter_minute_first(l, t) ==
    LET r == roll_windows(l, t) IN
    IF r.current_minute_count >= r.requests_per_minute
    THEN [limit |-> r, outcome |-> "sleep",
          wait_seconds |-> r.last_minute_reset + MinuteTicks - t]
    ELSE IF r.current_day_count >= r.requests_per_day
    THEN [limit |-> r, outcome |-> "RateLimitExceeded",
          wait_seconds |-> r.last_day_reset + DayTicks - t]
    ELSE [limit |-> count_request(r), outcome |-> "True", wait_seconds |-> 0]

\* Mutant: an exhausted minute quota raises like an exhausted daily one.
Mut_acquire_enter_minute_raises(l, t) ==
    LET r == roll_windows(l, t) IN
    IF r.current_day_count >= r.requests_per_day
    THEN [limit |-> r, outcome |-> "RateLimitExceeded",
          wait_seconds |-> r.last_day_reset + DayTicks - t]
    ELSE IF r.current_minute_count >= r.requests_per_minute
    THEN [limit |-> r, outcome |-> "RateLimitExceeded",
          wait_seconds |-> r.last_minute_reset + MinuteTicks - t]
    ELSE [limit |-> count_request(r), outcome |-> "True", wait_seconds |-> 0]

\* acquire(), lines 53-73 up to the first suspension: the limit afterwards,
\* and whether the call returned True, raised, or is in asyncio.sleep.
acquire_enter(l, t) ==
    LET r == roll_windows(l, t) IN
    IF r.current_day_count >= r.requests_per_day
    THEN [limit |-> r, outcome |-> "RateLimitExceeded",
          wait_seconds |-> r.last_day_reset + DayTicks - t]
    ELSE IF r.current_minute_count >= r.requests_per_minute
    THEN [limit |-> r, outcome |-> "sleep",
          wait_seconds |-> r.last_minute_reset + MinuteTicks - t]
    ELSE [limit |-> count_request(r), outcome |-> "True", wait_seconds |-> 0]

\* Mutant: the minute window is not reset after the sleep.
Mut_acquire_resume(l, t) == count_request(l)

\* acquire(), lines 69-73: after asyncio.sleep returned at time t.
acquire_resume(l, t) ==
    count_request([l EXCEPT !.current_minute_count = 0,
                            !.last_minute_reset = t])

get_remaining(lims, api) ==
    IF api \notin DOMAIN lims THEN 0 - 1
    ELSE lims[api].requests_per_day - lims[api].current_day_count

Unlocked == [held |-> FALSE, who |-> 0, wake |-> 0]
NoAcquire == [step |-> "none", who |-> 0, api |-> "none", outcome |-> "none",
              wait_seconds |-> 0, pre |-> RateLimit(0, 0, 0)]

RLInitWith(perDay, perMinute) ==
    /\ \E d \in perDay, m \in perMinute :
          limits = [a \in Apis |-> RateLimit(d, m, now)]
    /\ locks = [a \in Apis |-> Unlocked]
    /\ granted = [a \in Apis |-> 0]
    /\ rlast = NoAcquire

\* Mutant: one lock for all APIs.
Mut_LockFree_global(a) == \A x \in Apis : ~locks[x].held

\* `async with self._locks[api]` can be entered.
LockFree(a) == ~locks[a].held
\* A caller is free to start a call unless it is suspended in one.
Suspended(p) == \E a \in Apis : locks[a].held /\ locks[a].who = p

\* acquire(api) from its start to its first suspension or its end.
Acquire(p, a) ==
    /\ ~Suspended(p)
    /\ LockFree(a)
    /\ LET r == acquire_enter(limits[a], now) IN
       /\ limits' = [limits EXCEPT ![a] = r.limit]
       /\ locks' = IF r.outcome = "sleep"
                   THEN [locks EXCEPT ![a] = [held |-> TRUE, who |-> p,
                                              wake |-> now + r.wait_seconds]]
                   ELSE locks
       /\ granted' = [granted EXCEPT ![a] =
                        (IF r.limit.last_day_reset # limits[a].last_day_reset
                         THEN 0 ELSE @)
                        + (IF r.outcome = "True" THEN 1 ELSE 0)]
       /\ rlast' = [step |-> "enter", who |-> p, api |-> a,
                    outcome |-> r.outcome, wait_seconds |-> r.wait_seconds,
                    pre |-> limits[a]]
    /\ UNCHANGED <<now, cbVars, regVars, authVars, toolVars>>

\* acquire(api) for a name that is not in self.limits: returns True.
AcquireUnlisted(p) ==
    /\ ~Suspended(p)
    /\ rlast' = [NoAcquire EXCEPT !.step = "enter", !.who = p,
                                  !.api = OtherApi, !.outcome = "True"]
    /\ UNCHANGED <<now, limits, locks, granted, cbVars, regVars, authVars, toolVars>>

\* asyncio.sleep(wait_seconds) is over: the rest of acquire().
Resume(p, a) ==
    /\ locks[a].held /\ locks[a].who = p
    /\ now >= locks[a].wake
    /\ limits' = [limits EXCEPT ![a] = acquire_resume(@, now)]
    /\ locks' = [locks EXCEPT ![a] = Unlocked]
    /\ granted' = [granted EXCEPT ![a] = @ + 1]
    /\ rlast' = [step |-> "resume", who |-> p, api |-> a, outcome |-> "True",
                 wait_seconds |-> 0, pre |-> limits[a]]
    /\ UNCHANGED <<now, cbVars, regVars, authVars, toolVars>>

\* The task is cancelled during asyncio.sleep: the lock is released.
CancelSleep(p, a) ==
    /\ locks[a].held /\ locks[a].who = p
    /\ locks' = [locks EXCEPT ![a] = Unlocked]
    /\ rlast' = [step |-> "resume", who |-> p, api |-> a,
                 outcome |-> "CancelledError", wait_seconds |-> 0,
                 pre |-> limits[a]]
    /\ UNCHANGED <<now, limits, granted, cbVars, regVars, authVars, toolVars>>

RLTick ==
    /\ now < MaxTime
    /\ now' = now + 1
    /\ rlast' = NoAcquire
    /\ UNCHANGED <<limits, locks, granted, cbVars, regVars, authVars, toolVars>>

RLNext ==
    \/ \E p \in Callers, a \in Apis : Acquire(p, a)
    \/ \E p \in Callers : AcquireUnlisted(p)
    \/ \E p \in Callers, a \in Apis : Resume(p, a)
    \/ \E p \in Callers, a \in Apis : CancelSleep(p, a)
    \/ RLTick

(* ============================== registry =============================== *)
(* The names the server registers (server.py:66-67). *)
Names == {"youtube_upload", "google_trends"}
MaxBreakers == 3

(* CircuitBreakerConfig(): the dataclass defaults. *)
DefaultConfig ==
    [failure_threshold |-> 5, recovery_timeout |-> 300,
     half_open_max_requests |-> 3, success_threshold |-> 2]

(* The configs callers pass to get_or_create: None, or one of these. *)
GivenConfigs ==
    {c \in CircuitBreakerConfig :
        c.half_open_max_requests = 1 /\ c.success_threshold = 1}

\* CircuitBreaker.__init__(name, config)
NewBreaker(name, cfg) ==
    [name |-> name,
     config |-> IF cfg = None THEN DefaultConfig ELSE cfg[1],
     state |-> CircuitBreakerState]

\* Mutant: the membership test is lost, every call constructs a breaker.
Mut_get_or_create(brs, objs, name, cfg) ==
    [breakers |-> [brs EXCEPT ![name] = Len(objs) + 1],
     objects |-> Append(objs, NewBreaker(name, cfg)),
     ret |-> Len(objs) + 1]

\* CircuitBreakerRegistry.get_or_create: the dict and the heap afterwards,
\* and the object returned.
get_or_create(brs, objs, name, cfg) ==
    IF brs[name] = 0
    THEN [breakers |-> [brs EXCEPT ![name] = Len(objs) + 1],
          objects |-> Append(objs, NewBreaker(name, cfg)),
          ret |-> Len(objs) + 1]
    ELSE [breakers |-> brs, objects |-> objs, ret |-> brs[name]]

NoLookup == [name |-> "none", arg |-> None, ret |-> 0, pre |-> <<>>,
             known |-> FALSE]

RegInit ==
    /\ breakers = [n \in Names |-> 0]
    /\ objects = <<>>
    /\ handed = [n \in Names |-> {}]
    /\ first = [n \in Names |-> None]
    /\ glast = NoLookup

GetOrCreate(name, cfg) ==
    /\ Len(objects) < MaxBreakers
    /\ LET r == get_or_create(breakers, objects, name, cfg) IN
       /\ breakers' = r.breakers
       /\ objects' = r.objects
       /\ handed' = [handed EXCEPT ![name] = @ \cup {r.ret}]
       /\ first' = IF first[name] = None
                   THEN [first EXCEPT ![name] = Some(r.objects[r.ret].config)]
                   ELSE first
       /\ glast' = [name |-> name, arg |-> cfg, ret |-> r.ret,
                    pre |-> objects, known |-> handed[name] # {}]
    /\ UNCHANGED <<now, authVars, toolVars, cbVars, rlVars>>

\* A holder of a returned breaker runs one call through it to its end.
UseBreaker(i, outcome) ==
    /\ i <= Len(objects)
    /\ \E n \in Names : i \in handed[n]
    /\ LET o == objects[i]
           r == call_admission(o.state, o.config, now)
           s == IF ~r.admitted THEN r.st
                ELSE IF outcome = "returned"
                THEN _record_success(r.st, o.config)
                ELSE _record_failure(r.st, o.config, now)
       IN objects' = [objects EXCEPT ![i].state = s]
    /\ glast' = NoLookup
    /\ UNCHANGED <<now, authVars, toolVars, cbVars, rlVars, breakers, handed, first>>

RegNext ==
    \/ \E n \in Names, c \in {None} \cup {Some(g) : g \in GivenConfigs} :
          GetOrCreate(n, c)
    \/ \E i \in 1..MaxBreakers, o \in {"returned", "raised"} : UseBreaker(i, o)

(* ====================== PreemptiveAuthManager ========================== *)
(* services/auth_manager.py.  One tick of `now` stands for a few minutes;  *)
(* lifetimes and horizons are counted in ticks.  creds.refresh() and       *)
(* flow.run_local_server() are blocking calls to Google: the model stops   *)
(* get_credentials at each of them and lets Google's answer arrive as a    *)
(* separate step, with the lock held and the clock standing still.         *)

\* cache_key values: one service, the default channel.
Keys == {"youtube:default"}
\* Longest lifetime Google grants an access token.
MaxLifetime == 2
\* Largest min_validity_minutes a caller passes.
MaxValidity == 2
\* Access tokens Google hands out in one behaviour.
MaxTokens == 2
\* The last tick of the clock in the auth manager's behaviours.
MaxAuthTime == 3
\* PREEMPTIVE_REFRESH_MINUTES, scaled to ticks.
PREEMPTIVE_REFRESH_MINUTES == 2

\* google.oauth2.credentials.Credentials: what the manager reads of it.
Credentials(token, refresh_token, expiry) ==
    [token |-> token, refresh_token |-> refresh_token, expiry |-> expiry]

\* Credentials.expired and Credentials.valid (no clock-skew allowance).
expired(creds, t) == creds.expiry # None /\ t >= creds.expiry[1]
valid(creds, t) == ~expired(creds, t)

\* A token file: missing, unreadable/unparsable, or a saved record.
Absent == [kind |-> "absent", creds |-> None]
Corrupt == [kind |-> "corrupt", creds |-> None]
Record(creds) == [kind |-> "record", creds |-> Some(creds)]

\* `min_validity_minutes or self.PREEMPTIVE_REFRESH_MINUTES`: None and 0
\* both select the default.
min_validity(min_validity_minutes) ==
    IF min_validity_minutes = 0 THEN PREEMPTIVE_REFRESH_MINUTES
    ELSE min_validity_minutes

_needs_preemptive_refresh(tec, key, min_validity_minutes, t) ==
    IF tec[key] = None THEN FALSE
    ELSE tec[key][1] - t < min_validity_minutes

Mut_needs_preemptive_refresh_for_creds(creds, min_validity_minutes, t) ==
    FALSE

_needs_preemptive_refresh_for_creds(creds, min_validity_minutes, t) ==
    IF creds.expiry = None THEN FALSE
    ELSE creds.expiry[1] - t < min_validity_minutes

_update_expiry_cache(tec, key, creds) ==
    IF creds.expiry # None THEN [tec EXCEPT ![key] = creds.expiry] ELSE tec

Mut_load_credentials(d, key) ==
    IF d[key].kind = "record" THEN d[key].creds
    ELSE IF d[key].kind = "corrupt" THEN Some(Credentials(0, FALSE, None))
    ELSE None

\* None when the file is missing and when reading or parsing it fails.
_load_credentials(d, key) ==
    IF d[key].kind = "record" THEN d[key].creds ELSE None

_save_credentials(d, key, creds) == [d EXCEPT ![key] = Record(creds)]

\* The manager's containers as one value, for the operators below.
Manager(cc, tec, d) == [cc |-> cc, tec |-> tec, disk |-> d]

\* `self._credentials_cache[cache_key] = creds` followed by
\* `self._update_expiry_cache(cache_key, creds)`.
cache_credentials(mgr, key, creds) ==
    [mgr EXCEPT !.cc = [@ EXCEPT ![key] = Some(creds)],
                !.tec = _update_expiry_cache(@, key, creds)]

\* Where a run of get_credentials stops: at an external call ("line60",
\* "line66", "line74": creds.refresh; "line79": authorization), or at its
\* end ("return" with the credential, "raise").
Stop(mgr, at, creds) == [mgr |-> mgr, at |-> at, creds |-> creds]

\* Mutant: a persisted credential that is due for refresh and has no
\* refresh token is sent to interactive authorization.
Mut_get_credentials_load(mgr, key, mv, t) ==
    LET creds == _load_credentials(mgr.disk, key) IN
    IF creds # None
    THEN IF _needs_preemptive_refresh_for_creds(creds[1], mv, t)
         THEN IF creds[1].refresh_token
              THEN Stop(mgr, "line74", creds)
              ELSE Stop(mgr, "line79", None)
         ELSE Stop(cache_credentials(mgr, key, creds[1]), "return", creds)
    ELSE Stop(mgr, "line79", None)

\* get_credentials from `creds = self._load_credentials(...)` on.
get_credentials_load(mgr, key, mv, t) ==
    LET creds == _load_credentials(mgr.disk, key) IN
    IF creds # None
    THEN IF _needs_preemptive_refresh_for_creds(creds[1], mv, t)
         THEN Stop(mgr, "line74", creds)
         ELSE Stop(cache_credentials(mgr, key, creds[1]), "return", creds)
    ELSE Stop(mgr, "line79", None)

\* get_credentials from the moment it holds the lock.
get_credentials(mgr, key, mv, t) ==
    IF mgr.cc[key] # None
    THEN LET creds == mgr.cc[key][1] IN
         IF _needs_preemptive_refresh(mgr.tec, key, mv, t)
         THEN Stop(mgr, "line60", mgr.cc[key])
         ELSE IF valid(creds, t)
         THEN Stop(mgr, "return", mgr.cc[key])
         ELSE IF expired(creds, t) /\ creds.refresh_token
         THEN Stop(mgr, "line66", mgr.cc[key])
         ELSE get_credentials_load(mgr, key, mv, t)
    ELSE get_credentials_load(mgr, key, mv, t)

\* What Google answers to creds.refresh(): an error, or a new access token
\* living `lifetime` ticks; and whether writing the token file then works.
RefreshAnswers ==
    [ok : {FALSE}, lifetime : {1}, saved : {FALSE}]
        \cup [ok : {TRUE}, lifetime : 1..MaxLifetime, saved : BOOLEAN]

\* creds.refresh(Request()) succeeded: the object carries the new token.
refresh(creds, token, lifetime, t) ==
    [creds EXCEPT !.token = token, !.expiry = Some(t + lifetime)]

\* get_credentials from the return of creds.refresh() on: the rest of
\* _refresh_credentials, then the rest of the branch that called it.  The
\* refresh at lines 60 and 66 works on the cached object itself.
get_credentials_refreshed(mgr, at, key, mv, creds, ans, token, t) ==
    IF ~ans.ok THEN Stop(mgr, "raise", None)
    ELSE
      LET new == refresh(creds, token, ans.lifetime, t)
          inplace == IF at \in {"line60", "line66"}
                     THEN [mgr EXCEPT !.cc = [@ EXCEPT ![key] = Some(new)]]
                     ELSE mgr
          saved == [inplace EXCEPT !.disk = _save_credentials(@, key, new)]
      IN  IF ~ans.saved THEN Stop(inplace, "raise", None)
          ELSE IF at = "line60"
          THEN get_credentials_load(cache_credentials(saved, key, new),
                                    key, mv, t)
          ELSE Stop(cache_credentials(saved, key, new), "return", Some(new))

\* How interactive authorization ends: an error, or a credential with or
\* without an expiry; and whether writing the token file then works.
AuthorizeAnswers ==
    [ok : {FALSE}, lifetime : {0}, saved : {FALSE}]
        \cup [ok : {TRUE}, lifetime : 0..MaxLifetime, saved : BOOLEAN]

\* The credential flow.run_local_server() returns; lifetime 0 stands for a
\* grant without expires_in.
authorized(token, lifetime, t) ==
    Credentials(token, TRUE, IF lifetime = 0 THEN None ELSE Some(t + lifetime))

\* get_credentials from the return of flow.run_local_server() on.
get_credentials_authorized(mgr, key, ans, token, t) ==
    IF ~ans.ok \/ ~ans.saved THEN Stop(mgr, "raise", None)
    ELSE LET new == authorized(token, ans.lifetime, t) IN
         Stop(cache_credentials([mgr EXCEPT
                  !.disk = _save_credentials(@, key, new)], key, new),
              "return", Some(new))

\* Longest upload, in ticks, ensure_valid_for_upload is asked to cover.
MaxUpload == 1

\* A caller's get_credentials call: where it stands (`at`), its arguments,
\* its local `creds`, the answers Google gave it so far (`path`) and, as
\* history, the manager's state for its key when it got the lock (`pre`).
NotCalling ==
    [at |-> "idle", key |-> "", mv |-> 0, creds |-> None, path |-> <<>>,
     pre |-> <<>>]

NoAuthEvent ==
    [step |-> "none", who |-> 0, key |-> "", mv |-> 0, creds |-> None,
     path |-> <<>>, pre |-> <<>>]

AuthMgr == Manager(credentials_cache, token_expiry_cache, disk)

\* The manager's state for one key.
Snapshot(key) ==
    [cc |-> credentials_cache[key], tec |-> token_expiry_cache[key],
     disk |-> disk[key]]

\* The token files a process may find at start.
InitialFiles ==
    {Absent, Corrupt}
        \cup {Record(Credentials(0, rt, e)) :
                  rt \in BOOLEAN, e \in {None, Some(1), Some(2)}}

\* PreemptiveAuthManager.__init__
AuthInitWith(files) ==
    /\ credentials_cache = [k \in Keys |-> None]
    /\ token_expiry_cache = [k \in Keys |-> None]
    /\ disk \in [Keys -> files]
    /\ refresh_lock = 0
    /\ inflight = [p \in Callers |-> NotCalling]
    /\ issued = 0
    /\ alast = NoAuthEvent

\* Caller p's call, holding the lock, has run to the stop s; the lock is
\* released when the call ends, by return or by exception.
Advance(p, c, s) ==
    /\ credentials_cache' = s.mgr.cc
    /\ token_expiry_cache' = s.mgr.tec
    /\ disk' = s.mgr.disk
    /\ IF s.at \in {"return", "raise"}
       THEN /\ inflight' = [inflight EXCEPT ![p] = NotCalling]
            /\ refresh_lock' = 0
            /\ alast' = [step |-> s.at, who |-> p, key |-> c.key,
                         mv |-> c.mv, creds |-> s.creds, path |-> c.path,
                         pre |-> c.pre]
       ELSE /\ inflight' = [inflight EXCEPT
                               ![p] = [c EXCEPT !.at = s.at,
                                                !.creds = s.creds]]
            /\ refresh_lock' = p
            /\ alast' = NoAuthEvent

\* A call with the resolved horizon mv takes the lock and runs to its first
\* stop.  While the lock is held `async with self._refresh_lock` lets no
\* other call in: such a call does nothing until the lock is free again.
StartCall(p, key, mv) ==
    /\ inflight[p].at = "idle"
    /\ refresh_lock = 0
    /\ Advance(p, [NotCalling EXCEPT !.key = key, !.mv = mv,
                                     !.pre = Some(Snapshot(key))],
               get_credentials(AuthMgr, key, mv, now))
    /\ UNCHANGED <<now, issued, cbVars, rlVars, regVars, toolVars>>

\* get_credentials(service, channel_id, min_validity_minutes)
GetCredentials(p, key, min_validity_minutes) ==
    StartCall(p, key, min_validity(min_validity_minutes))

\* ensure_valid_for_upload(service, channel_id, estimated_upload_minutes)
EnsureValidForUpload(p, key, estimated_upload_minutes) ==
    StartCall(p, key, min_validity(estimated_upload_minutes
                                       + PREEMPTIVE_REFRESH_MINUTES))

\* creds.refresh(Request()) comes back to the call of p.  Credentials
\* without a refresh token cannot be refreshed.
RefreshReturns(p, ans) ==
    /\ inflight[p].at \in {"line60", "line66", "line74"}
    /\ ans.ok => inflight[p].creds[1].refresh_token /\ issued < MaxTokens
    /\ issued' = IF ans.ok THEN issued + 1 ELSE issued
    /\ LET c == inflight[p] IN
       Advance(p, [c EXCEPT !.path = Append(@, [at |-> c.at, ans |-> ans])],
               get_credentials_refreshed(AuthMgr, c.at, c.key, c.mv,
                                         c.creds[1], ans, issued + 1, now))
    /\ UNCHANGED <<now, cbVars, rlVars, regVars, toolVars>>

\* flow.run_local_server() comes back to the call of p.
AuthorizeReturns(p, ans) ==
    /\ inflight[p].at = "line79"
    /\ ans.ok => issued < MaxTokens
    /\ issued' = IF ans.ok THEN issued + 1 ELSE issued
    /\ LET c == inflight[p] IN
       Advance(p, [c EXCEPT !.path = Append(@, [at |-> c.at, ans |-> ans])],
               get_credentials_authorized(AuthMgr, c.key, ans,
                                          issued + 1, now))
    /\ UNCHANGED <<now, cbVars, rlVars, regVars, toolVars>>

\* Time passes while no call is under way.
AuthTick ==
    /\ now < MaxAuthTime
    /\ refresh_lock = 0
    /\ now' = now + 1
    /\ alast' = NoAuthEvent
    /\ UNCHANGED <<credentials_cache, token_expiry_cache, disk, refresh_lock,
                   inflight, issued, cbVars, rlVars, regVars, toolVars>>

AuthNext ==
    \/ \E p \in Callers, k \in Keys, m \in 0..MaxValidity :
          GetCredentials(p, k, m)
    \/ \E p \in Callers, k \in Keys, d \in 0..MaxUpload :
          EnsureValidForUpload(p, k, d)
    \/ \E p \in Callers, ans \in RefreshAnswers : RefreshReturns(p, ans)
    \/ \E p \in Callers, ans \in AuthorizeAnswers : AuthorizeReturns(p, ans)
    \/ AuthTick

(* ============================= tool layer ============================== *)
(* The two tools of server.py that call a third-party API through a        *)
(* breaker: publish_video (YouTube) and get_trending_topics (Google        *)
(* Trends).  What the credential call, the cache and the API answer is     *)
(* chosen freely; breaker and rate limiter are the operators above.        *)
Tools == {"publish_video", "get_trending_topics"}
\* Tool calls in one behaviour, and the last tick of its clock.
MaxToolCalls == 3
MaxToolTime == 3

\* youtube_breaker and trends_breaker, and the API name each tool acquires.
BreakerOf(tool) ==
    IF tool = "publish_video" THEN "youtube_upload" ELSE "google_trends"
ApiOf(tool) == IF tool = "publish_video" THEN "youtube_upload" ELSE "trends"

\* BREAKER_CONFIGS, thresholds and timeouts scaled down; youtube_upload
\* allows one probe, google_trends keeps the defaults' shape.
BREAKER_CONFIGS ==
    [youtube_upload |->
        [failure_threshold |-> MaxFailureThreshold,
         recovery_timeout |-> RecoveryTimeout,
         half_open_max_requests |-> 1,
         success_threshold |-> MaxSuccessThreshold],
     google_trends |->
        [failure_threshold |-> MaxFailureThreshold,
         recovery_timeout |-> RecoveryTimeout,
         half_open_max_requests |-> MaxHalfOpenRequests,
         success_threshold |-> MaxSuccessThreshold]]

\* A caller's tool call: the step it is about to take and, as history, the
\* steps it has taken.
NoToolCall == [at |-> "idle", tool |-> "", steps |-> <<>>]

\* How a tool call ended: what its caller got (`ret`), the exception that
\* left the wrapped function, if any (`error`), and what the breaker
\* recorded for it (`recorded`).
NoToolEvent ==
    [tool |-> "", who |-> 0, steps |-> <<>>, ret |-> "none",
     error |-> "none", recorded |-> "none"]

ToolInit ==
    /\ tbreakers = [n \in Names |-> CircuitBreakerState]
    /\ tcalls = [p \in Callers |-> NoToolCall]
    /\ tlast = NoToolEvent
    /\ started = 0

\* The wrapped function returned: `await self._record_success()`.
ToolReturns(p, steps, ret) ==
    LET c == tcalls[p]
        b == BreakerOf(c.tool) IN
    /\ tbreakers' = [tbreakers EXCEPT
                        ![b] = _record_success(@, BREAKER_CONFIGS[b])]
    /\ tcalls' = [tcalls EXCEPT ![p] = NoToolCall]
    /\ tlast' = [tool |-> c.tool, who |-> p, steps |-> steps, ret |-> ret,
                 error |-> "none", recorded |-> "success"]

\* The wrapped function raised: `await self._record_failure(e)`, `raise`.
ToolRaises(p, steps, error) ==
    LET c == tcalls[p]
        b == BreakerOf(c.tool) IN
    /\ tbreakers' = [tbreakers EXCEPT
                        ![b] = _record_failure(@, BREAKER_CONFIGS[b], now)]
    /\ tcalls' = [tcalls EXCEPT ![p] = NoToolCall]
    /\ tlast' = [tool |-> c.tool, who |-> p, steps |-> steps, ret |-> "raise",
                 error |-> error, recorded |-> "failure"]

\* publish_video / get_trending_topics: `await <breaker>.call(_upload)`
\* (`_fetch`), up to the first thing the wrapped function waits for; a
\* rejected call returns the "downgraded" answer at once.
ToolCall(p, tool) ==
    /\ tcalls[p].at = "idle"
    /\ started < MaxToolCalls
    /\ started' = started + 1
    /\ LET b == BreakerOf(tool)
           r == call_admission(tbreakers[b], BREAKER_CONFIGS[b], now) IN
       /\ tbreakers' = [tbreakers EXCEPT ![b] = r.st]
       /\ IF r.admitted
          THEN /\ tcalls' = [tcalls EXCEPT ![p] =
                               [at |-> IF tool = "publish_video"
                                       THEN "credentials" ELSE "cache",
                                tool |-> tool, steps |-> <<"breaker">>]]
               /\ tlast' = NoToolEvent
          ELSE /\ tcalls' = tcalls
               /\ tlast' = [tool |-> tool, who |-> p, steps |-> <<"breaker">>,
                            ret |-> "downgraded", error |-> "none",
                            recorded |-> "none"]
    /\ UNCHANGED <<now, cbVars, rlVars, regVars, authVars>>

\* _upload, step 5: auth_manager.ensure_valid_for_upload returns or raises.
EnsureValid(p, ok) ==
    /\ tcalls[p].at = "credentials"
    /\ LET steps == Append(tcalls[p].steps, "credentials") IN
       IF ok
       THEN /\ tcalls' = [tcalls EXCEPT ![p].at = "acquire",
                                        ![p].steps = steps]
            /\ tlast' = NoToolEvent
            /\ UNCHANGED tbreakers
       ELSE ToolRaises(p, steps, "authorization")
    /\ UNCHANGED <<now, started, cbVars, rlVars, regVars, authVars>>

\* TrendsService.get_trending_topics: a cache hit is returned without any
\* request.
CacheGet(p, hit) ==
    /\ tcalls[p].at = "cache"
    /\ LET steps == Append(tcalls[p].steps, "cache") IN
       IF hit
       THEN ToolReturns(p, steps, "result")
       ELSE /\ tcalls' = [tcalls EXCEPT ![p].at = "acquire",
                                        ![p].steps = steps]
            /\ tlast' = NoToolEvent
            /\ UNCHANGED tbreakers
    /\ UNCHANGED <<now, started, cbVars, rlVars, regVars, authVars>>

\* `await self.rate_limiter.acquire(api)` inside the wrapped function, to
\* its return, its RateLimitExceeded or its sleep.
ToolAcquire(p) ==
    /\ tcalls[p].at = "acquire"
    /\ LET a == ApiOf(tcalls[p].tool)
           r == acquire_enter(limits[a], now)
           steps == Append(tcalls[p].steps, "acquire") IN
       /\ LockFree(a)
       /\ limits' = [limits EXCEPT ![a] = r.limit]
       /\ locks' = IF r.outcome = "sleep"
                   THEN [locks EXCEPT ![a] = [held |-> TRUE, who |-> p,
                                              wake |-> now + r.wait_seconds]]
                   ELSE locks
       /\ IF r.outcome = "RateLimitExceeded"
          THEN ToolRaises(p, steps, "RateLimitExceeded")
          ELSE /\ tcalls' = [tcalls EXCEPT
                               ![p].at = IF r.outcome = "sleep"
                                         THEN "sleep" ELSE "request",
                               ![p].steps = steps]
               /\ tlast' = NoToolEvent
               /\ UNCHANGED tbreakers
    /\ UNCHANGED <<now, started, granted, rlast, cbVars, regVars, authVars>>

\* acquire() after its sleep.
ToolResume(p) ==
    /\ tcalls[p].at = "sleep"
    /\ LET a == ApiOf(tcalls[p].tool) IN
       /\ now >= locks[a].wake
       /\ limits' = [limits EXCEPT ![a] = acquire_resume(@, now)]
       /\ locks' = [locks EXCEPT ![a] = Unlocked]
    /\ tcalls' = [tcalls EXCEPT ![p].at = "request"]
    /\ tlast' = NoToolEvent
    /\ UNCHANGED <<now, started, granted, rlast, tbreakers, cbVars, regVars,
                   authVars>>

\* The request to the third-party API.  YouTubePublisher.publish_video
\* turns an HttpError into a PublishVideoOutput(success=False) that it
\* returns; every other exception, and every exception of the Trends
\* request, leaves the wrapped function.
ApiRequest(p, answer) ==
    /\ tcalls[p].at = "request"
    /\ LET steps == Append(tcalls[p].steps, "request") IN
       IF answer = "ok" THEN ToolReturns(p, steps, "result")
       ELSE IF answer = "HttpError" /\ tcalls[p].tool = "publish_video"
       THEN ToolReturns(p, steps, "success=False")
       ELSE ToolRaises(p, steps, "api")
    /\ UNCHANGED <<now, started, cbVars, rlVars, regVars, authVars>>

ToolTick ==
    /\ now < MaxToolTime
    /\ now' = now + 1
    /\ tlast' = NoToolEvent
    /\ UNCHANGED <<tbreakers, tcalls, started, cbVars, rlVars, regVars,
                   authVars>>

ToolNext ==
    \/ \E p \in Callers, tool \in Tools : ToolCall(p, tool)
    \/ \E p \in Callers, ok \in BOOLEAN : EnsureValid(p, ok)
    \/ \E p \in Callers, hit \in BOOLEAN : CacheGet(p, hit)
    \/ \E p \in Callers : ToolAcquire(p)
    \/ \E p \in Callers : ToolResume(p)
    \/ \E p \in Callers, answer \in {"ok", "HttpError", "error"} :
          ApiRequest(p, answer)
    \/ ToolTick

(* ========================== specifications ============================= *)
\* The components at rest.
CBIdle ==
    /\ config = DefaultConfig
    /\ cb = CircuitBreakerState
    /\ pc = [p \in Callers |-> "idle"]
    /\ probes = 0
    /\ streak = [fail |-> 0, succ |-> 0]
    /\ last = NoEvent

AuthIdle == AuthInitWith({Absent})

\* The circuit breaker under concurrent callers.
Init ==
    /\ now = 0
    /\ CBInit
    /\ RLInitWith({1}, {1})
    /\ RegInit
    /\ AuthIdle
    /\ ToolInit

Spec == Init /\ [][CBNext]_vars

\* The rate limiter under concurrent callers.
RLInit ==
    /\ now = 0
    /\ CBIdle
    /\ RLInitWith(1..MaxPerDay, 1..MaxPerMinute)
    /\ RegInit
    /\ AuthIdle
    /\ ToolInit

SpecRL == RLInit /\ [][RLNext]_vars

\* The registry and the breakers it hands out.
RegistryInit ==
    /\ now = 0
    /\ CBIdle
    /\ RLInitWith({1}, {1})
    /\ RegInit
    /\ AuthIdle
    /\ ToolInit

SpecRegistry == RegistryInit /\ [][RegNext]_vars

\* The auth manager under concurrent callers.
AuthInit ==
    /\ now = 0
    /\ CBIdle
    /\ RLInitWith({1}, {1})
    /\ RegInit
    /\ AuthInitWith(InitialFiles)
    /\ ToolInit

SpecAuth == AuthInit /\ [][AuthNext]_vars

\* The tools under concurrent callers.
ToolsInit ==
    /\ now = 0
    /\ CBIdle
    /\ RLInitWith(1..MaxPerDay, {1})
    /\ RegInit
    /\ AuthIdle
    /\ ToolInit

SpecTools == ToolsInit /\ [][ToolNext]_vars

\* Recovery after an outage: the wrapped operation fails until OutageEnd
\* and returns normally from then on; callers keep calling and every
\* operation in flight comes back.
UsedConfigs == {BREAKER_CONFIGS[n] : n \in DOMAIN BREAKER_CONFIGS}

RecoveryInit ==
    /\ now = 0
    /\ CBInit
    /\ config \in UsedConfigs
    /\ RLInitWith({1}, {1})
    /\ RegInit
    /\ AuthIdle
    /\ ToolInit

OutageRaise(p) == now < OutageEnd /\ OpRaise(p)

RecoveryNext ==
    \/ \E p \in Callers : Call(p)
    \/ \E p \in Callers : OpReturn(p)
    \/ \E p \in Callers : OutageRaise(p)
    \/ CBTick

\* Every caller calls again and again (the event loop runs every ready
\* task), and an operation awaited by call() is resumed when it is done.
RecoveryFairness ==
    \A p \in Callers : WF_vars(Call(p)) /\ WF_vars(OpReturn(p))

SpecRecovery == RecoveryInit /\ [][RecoveryNext]_vars /\ RecoveryFairness

(* ===================== claims: circuit breaker ========================= *)
IsCall == last.op \in {"invoked", "not_invoked"}
\* Seconds since the failure recorded in _state s, read at time t.
Elapsed(s, t) == t - s.last_failure_time[1]

(* C1: once failure_threshold failures in a row have been recorded (no
   success between them) the breaker is OPEN for as long as
   now - last_failure_time < recovery_timeout, and every call made to an
   OPEN breaker in that time returns (None, "downgraded"), its operation not
   invoked and the breaker state untouched. *)
C1_OpensAndRejects ==
    /\ streak.fail >= config.failure_threshold =>
          /\ cb.last_failure_time # None
          /\ Elapsed(cb, now) < config.recovery_timeout => cb.state = OPEN
    /\ (IsCall /\ last.pre.state = OPEN
          /\ Elapsed(last.pre, now) < config.recovery_timeout) =>
          /\ last.ret = <<"None", "downgraded">>
          /\ last.op = "not_invoked"
          /\ pc[last.who] = "idle"
          /\ cb = last.pre

\* A breaker with threshold >= 2 opened by that many failures in a row has
\* just rejected a call made later, inside the recovery timeout.
C1_Witness ==
    /\ config.failure_threshold >= 2
    /\ streak.fail = config.failure_threshold
    /\ last.op = "not_invoked"
    /\ last.pre.state = OPEN
    /\ now > cb.last_failure_time[1]
    /\ Elapsed(cb, now) < config.recovery_timeout

(* C2: a call to an OPEN breaker made while now - last_failure_time <
   recovery_timeout is rejected and leaves it OPEN; a call made when
   now - last_failure_time >= recovery_timeout moves it to HALF_OPEN (probe
   and success counters restarted) and has its operation invoked as the
   first probe. *)
C2_RecoveryBoundary ==
    (IsCall /\ last.pre.state = OPEN) =>
        IF Elapsed(last.pre, now) < config.recovery_timeout
        THEN last.op = "not_invoked" /\ cb.state = OPEN
        ELSE /\ last.op = "invoked"
             /\ pc[last.who] = "probe"
             /\ cb.state = HALF_OPEN
             /\ cb.half_open_request_count = 1
             /\ cb.success_count = 0
             /\ probes = 1

\* An OPEN breaker admits a call exactly recovery_timeout after the failure.
C2_Witness ==
    /\ last.op = "invoked"
    /\ last.pre.state = OPEN
    /\ Elapsed(last.pre, now) = config.recovery_timeout
    /\ cb.state = HALF_OPEN

(* C3: in a HALF_OPEN episode at most half_open_max_requests operations are
   invoked; a call beyond that returns (None, "downgraded"), is not invoked
   and leaves half_open_request_count (and the rest of the state) as it
   was. *)
C3_ProbeBudget ==
    /\ cb.state = HALF_OPEN => probes <= config.half_open_max_requests
    /\ (IsCall /\ last.pre.state = HALF_OPEN) =>
          IF last.pre.half_open_request_count >= config.half_open_max_requests
          THEN /\ last.ret = <<"None", "downgraded">>
               /\ pc[last.who] = "idle"
               /\ cb = last.pre
               /\ probes = config.half_open_max_requests
          ELSE last.op = "invoked" /\ pc[last.who] = "probe"

\* With a budget of two probes, both admitted in this episode, one more
\* call has just been turned away.
C3_Witness ==
    /\ config.half_open_max_requests >= 2
    /\ cb.state = HALF_OPEN
    /\ last.op = "not_invoked"
    /\ last.pre.state = HALF_OPEN
    /\ probes = config.half_open_max_requests

(* C4: one failure recorded in HALF_OPEN opens the breaker at once with
   half_open_request_count = 0, success_count = 0 and last_failure_time the
   time of that failure, so a call is rejected at every time less than
   recovery_timeout after it. *)
C4_HalfOpenFailure ==
    (last.op = "raised" /\ last.pre.state = HALF_OPEN) =>
        /\ cb.state = OPEN
        /\ cb.half_open_request_count = 0
        /\ cb.success_count = 0
        /\ cb.last_failure_time = Some(now)
        /\ \A t \in now..MaxTime :
              t - now < config.recovery_timeout =>
                  ~call_admission(cb, config, t).admitted

\* A probe fails after an earlier probe of the episode succeeded, with the
\* failure count below the threshold.
C4_Witness ==
    /\ last.op = "raised"
    /\ last.pre.state = HALF_OPEN
    /\ last.pre.success_count >= 1
    /\ cb.failure_count < config.failure_threshold
    /\ cb.state = OPEN

(* C5: when success_threshold successes in a row have been recorded in
   HALF_OPEN the breaker is CLOSED with failure_count, success_count and
   half_open_request_count all 0; with fewer it is still HALF_OPEN. *)
C5_ClosesAfterSuccesses ==
    /\ cb.state = HALF_OPEN => streak.succ < config.success_threshold
    /\ (last.op = "returned" /\ last.pre.state = HALF_OPEN) =>
          IF streak.succ >= config.success_threshold
          THEN /\ cb.state = CLOSED
               /\ cb.failure_count = 0
               /\ cb.success_count = 0
               /\ cb.half_open_request_count = 0
          ELSE cb.state = HALF_OPEN /\ cb.success_count = streak.succ

\* The second success in a row closes a breaker whose threshold is two.
C5_Witness ==
    /\ config.success_threshold = 2
    /\ last.op = "returned"
    /\ last.pre.state = HALF_OPEN
    /\ last.pre.success_count = 1
    /\ streak.succ = 2
    /\ cb.state = CLOSED

(* C6: call() returns (result, None) exactly when the operation was invoked
   and returned; when it raised, the failure is recorded (failure_count one
   more, last_failure_time now) and the error is raised to the caller;
   (None, "downgraded") is returned only by calls whose operation was never
   invoked. *)
C6_Outcomes ==
    /\ last.ret = <<"result", "None">> <=> last.op = "returned"
    /\ last.op = "raised" =>
          /\ last.ret = <<"raise", "error">>
          /\ cb.failure_count = last.pre.failure_count + 1
          /\ cb.last_failure_time = Some(now)
    /\ last.ret = <<"None", "downgraded">> =>
          /\ last.op = "not_invoked"
          /\ pc[last.who] = "idle"
          /\ last.pre.state # CLOSED

\* An admitted call's operation raised while the breaker stayed CLOSED.
C6_Witness ==
    /\ last.op = "raised"
    /\ last.ret = <<"raise", "error">>
    /\ last.pre.state = CLOSED
    /\ cb.state = CLOSED
    /\ cb.failure_count = 1

(* ======================== claims: registry ============================= *)
ObjectsNamed(n) == {i \in 1..Len(objects) : objects[i].name = n}

(* C7: get_or_create is idempotent: all calls with one name return the same
   CircuitBreaker object, whose config is the one the first call gave (a
   later call's config is ignored) and whose state a later call leaves as
   it was; one breaker object exists per name that was asked for. *)
C7_Idempotent ==
    /\ \A n \in Names :
          /\ Cardinality(handed[n]) <= 1
          /\ Cardinality(ObjectsNamed(n)) = (IF first[n] = None THEN 0 ELSE 1)
          /\ handed[n] = ObjectsNamed(n)
          /\ \A i \in handed[n] :
                breakers[n] = i /\ first[n] = Some(objects[i].config)
    /\ glast.known => objects = glast.pre /\ glast.ret \in handed[glast.name]

\* A second call, passing another config, returned a breaker that has
\* already recorded a failure under the config of the first call.
C7_Witness ==
    /\ glast.known
    /\ glast.arg # None
    /\ glast.arg # first[glast.name]
    /\ objects[glast.ret].state.failure_count > 0
    /\ Cardinality({n \in Names : handed[n] # {}}) = 2

(* ======================= claims: rate limiter ========================== *)
IsEnter == rlast.step = "enter" /\ rlast.api \in Apis
\* The tests of acquire() on the limit as the call found it (rlast.pre).
DayRolled == now - rlast.pre.last_day_reset > DayTicks
MinuteRolled == now - rlast.pre.last_minute_reset > MinuteTicks
DayExhausted ==
    ~DayRolled /\ rlast.pre.current_day_count >= rlast.pre.requests_per_day
MinuteExhausted ==
    ~MinuteRolled
    /\ rlast.pre.current_minute_count >= rlast.pre.requests_per_minute

(* C8: in one daily window exactly requests_per_day acquires are granted;
   an acquire that finds the daily quota used up raises RateLimitExceeded
   at once, with wait_seconds = last_day_reset + one day - now, between 0
   and one day, whether or not the per-minute quota is used up too, and
   does not suspend or count. *)
C8_DailyQuota ==
    /\ \A a \in Apis : granted[a] <= limits[a].requests_per_day
    /\ IsEnter =>
          IF DayExhausted
          THEN /\ rlast.outcome = "RateLimitExceeded"
               /\ rlast.wait_seconds = rlast.pre.last_day_reset + DayTicks - now
               /\ rlast.wait_seconds \in 0..DayTicks
               /\ granted[rlast.api] = rlast.pre.requests_per_day
               /\ LockFree(rlast.api)
               /\ limits[rlast.api].current_day_count
                     = rlast.pre.current_day_count
          ELSE /\ rlast.outcome # "RateLimitExceeded"
               /\ rlast.outcome = "True" =>
                     granted[rlast.api] <= rlast.pre.requests_per_day

\* Both quotas equal and used up in the same minute: the next call raises.
C8_Witness ==
    /\ IsEnter
    /\ rlast.outcome = "RateLimitExceeded"
    /\ rlast.pre.requests_per_day = rlast.pre.requests_per_minute
    /\ rlast.pre.requests_per_day >= 2
    /\ MinuteExhausted
    /\ rlast.wait_seconds > 0

(* C9: an acquire that finds the per-minute quota used up (line 65) and the
   daily quota not used up never raises: it suspends under the lock until
   last_minute_reset + one minute, and when it resumes it restarts the
   minute window at the current time, counts itself in both counters and
   returns True. *)
C9_MinuteWait ==
    /\ (IsEnter /\ MinuteExhausted /\ ~DayExhausted) =>
          /\ rlast.outcome = "sleep"
          /\ locks[rlast.api].held /\ locks[rlast.api].who = rlast.who
          /\ locks[rlast.api].wake = rlast.pre.last_minute_reset + MinuteTicks
          /\ locks[rlast.api].wake >= now
    /\ (IsEnter /\ rlast.outcome = "sleep") => MinuteExhausted /\ ~DayExhausted
    /\ rlast.step = "resume" /\ rlast.outcome # "CancelledError" =>
          /\ rlast.outcome = "True"
          /\ now >= rlast.pre.last_minute_reset + MinuteTicks
          /\ limits[rlast.api].last_minute_reset = now
          /\ limits[rlast.api].current_minute_count = 1
          /\ limits[rlast.api].current_day_count
                = rlast.pre.current_day_count + 1
          /\ LockFree(rlast.api)

\* A suspended acquire has resumed and returned True with the daily quota
\* now used up.
C9_Witness ==
    /\ rlast.step = "resume"
    /\ rlast.outcome = "True"
    /\ rlast.pre.current_minute_count >= rlast.pre.requests_per_minute
    /\ limits[rlast.api].current_day_count
          = limits[rlast.api].requests_per_day
    /\ limits[rlast.api].requests_per_day >= 2

(* C10: for every API, whenever an acquire returns True (and at every other
   instant) current_day_count <= requests_per_day and current_minute_count
   <= requests_per_minute, so get_remaining(api) is never negative. *)
C10_WithinLimits ==
    \A a \in Apis :
        /\ limits[a].current_day_count <= limits[a].requests_per_day
        /\ limits[a].current_minute_count <= limits[a].requests_per_minute
        /\ get_remaining(limits, a) >= 0
        /\ get_remaining(limits, a)
              = limits[a].requests_per_day - limits[a].current_day_count

\* An acquire returned True with both counters exactly at their limits.
C10_Witness ==
    /\ rlast.outcome = "True"
    /\ rlast.api \in Apis
    /\ limits[rlast.api].current_day_count = limits[rlast.api].requests_per_day
    /\ limits[rlast.api].current_minute_count
          = limits[rlast.api].requests_per_minute
    /\ get_remaining(limits, rlast.api) = 0
    /\ limits[rlast.api].requests_per_minute >= 2

(* C11: one lock per API name.  While an acquire on one API is suspended in
   its minute wait, holding that API's lock, a caller's acquire on any API
   whose own lock is free can run at once; an acquire on the API whose lock
   is held cannot start; and every granted acquire is counted: no increment
   of current_day_count is lost. *)
C11_PerApiLocks ==
    /\ \A p \in Callers, b \in Apis :
          (~Suspended(p) /\ ~locks[b].held) => ENABLED Acquire(p, b)
    /\ \A p \in Callers, a \in Apis :
          locks[a].held => ~ENABLED Acquire(p, a)
    /\ \A a \in Apis : granted[a] = limits[a].current_day_count

\* While one caller sleeps under the lock of one API, another caller's
\* acquire on the other API has just returned True.
C11_Witness ==
    \E a \in Apis :
        /\ locks[a].held
        /\ rlast.step = "enter"
        /\ rlast.api \in Apis \ {a}
        /\ rlast.who # locks[a].who
        /\ rlast.outcome = "True"

(* ------------------- claims about PreemptiveAuthManager ---------------- *)
\* The last step ended a get_credentials call.
Returned == alast.step = "return"
Raised == alast.step = "raise"
\* creds.refresh() calls a call made, all and the successful ones, and
\* whether it went through interactive authorization.
Refreshes(path) == Cardinality({i \in 1..Len(path) : path[i].at # "line79"})
RefreshesOk(path) ==
    Cardinality({i \in 1..Len(path) : path[i].at # "line79" /\ path[i].ans.ok})
Authorized(path) == \E i \in 1..Len(path) : path[i].at = "line79"
\* The credential the cache held for the call's key when the call began.
CachedBefore == alast.pre[1].cc
\* Remaining lifetime of a credential with an expiry.
Remaining(creds) == creds.expiry[1] - now

\* C12: a get_credentials call whose horizon exceeds the remaining lifetime
\* of the cached token makes exactly one refresh before it returns.
C12_ExactlyOneRefresh ==
    (/\ Returned
     /\ CachedBefore # None
     /\ CachedBefore[1].expiry # None
     /\ Remaining(CachedBefore[1]) < alast.mv)
        => Refreshes(alast.path) = 1

\* C13: a returned credential with a known expiry has at least the call's
\* horizon (min_validity_minutes; estimated_upload_minutes +
\* PREEMPTIVE_REFRESH_MINUTES for ensure_valid_for_upload) left to live.
C13_ValidForHorizon ==
    (Returned /\ alast.creds[1].expiry # None)
        => Remaining(alast.creds[1]) >= alast.mv

\* The call that just ended found a cached token inside its refresh horizon.
CachedInsideHorizon ==
    /\ alast.step # "none"
    /\ CachedBefore # None
    /\ CachedBefore[1].expiry # None
    /\ Remaining(CachedBefore[1]) < alast.mv
\* ... and its refresh brought a token whose lifetime exceeds the horizon.
RefreshedBeyondHorizon ==
    /\ CachedInsideHorizon
    /\ alast.path # <<>>
    /\ alast.path[1].ans.ok
    /\ alast.path[1].ans.lifetime > alast.mv
\* What a further call for the same key and horizon does when it gets the
\* lock next.
NextCaller == get_credentials(AuthMgr, alast.key, alast.mv, now)

\* C14: refreshes and authorizations never overlap, each runs under the
\* lock, and of the calls that meet a cached token inside the horizon only
\* the first reaches the token endpoint, once: the next caller is handed
\* the refreshed token from the cache.
C14_SerializedRefresh ==
    /\ \A p, q \in Callers :
          (inflight[p].at # "idle" /\ inflight[q].at # "idle") => p = q
    /\ \A p \in Callers : inflight[p].at # "idle" => refresh_lock = p
    /\ RefreshedBeyondHorizon =>
          /\ Refreshes(alast.path) = 1
          /\ NextCaller.at = "return"
          /\ NextCaller.creds[1].expiry
                = Some(now + alast.path[1].ans.lifetime)

\* The same, for calls whose refreshed credential could be written to disk.
SerializedRefreshWhenSaved ==
    /\ \A p, q \in Callers :
          (inflight[p].at # "idle" /\ inflight[q].at # "idle") => p = q
    /\ \A p \in Callers : inflight[p].at # "idle" => refresh_lock = p
    /\ (RefreshedBeyondHorizon /\ alast.path[1].ans.saved) =>
          /\ Refreshes(alast.path) = 1
          /\ NextCaller.at = "return"
          /\ NextCaller.creds[1].expiry
                = Some(now + alast.path[1].ans.lifetime)

\* The call that just ended had a creds.refresh() answered with an error.
RefreshFailed ==
    /\ alast.step # "none"
    /\ \E i \in 1..Len(alast.path) :
          alast.path[i].at # "line79" /\ ~alast.path[i].ans.ok
\* What a failed refresh must come to.
SurfacedUntouched ==
    /\ Raised
    /\ alast.creds = None
    /\ Refreshes(alast.path) = 1
    /\ ~Authorized(alast.path)
    /\ Snapshot(alast.key) = alast.pre[1]

\* C15: a failed token refresh ends the call with that error after one
\* attempt, without authorization, without a credential, and with both
\* caches and the token file as they were before the call.
C15_RefreshFailureSurfaces == RefreshFailed => SurfacedUntouched

\* The same, for calls whose first refresh is the one that failed.
FirstRefreshFailureSurfaces ==
    (RefreshFailed /\ ~alast.path[1].ans.ok) => SurfacedUntouched

\* The credential the call that just ended started from: the cached one,
\* else the persisted record, else none.
StartedFrom ==
    IF CachedBefore # None THEN CachedBefore
    ELSE IF alast.pre[1].disk.kind = "record" THEN alast.pre[1].disk.creds
    ELSE None

\* C16: a returned credential is never expired; a call that starts from an
\* expired credential, cached or persisted, returns only after a
\* successful refresh, and ends in an error when that credential has no
\* refresh token.
C16_NeverExpired ==
    /\ Returned => (alast.creds # None /\ valid(alast.creds[1], now))
    /\ (Returned /\ StartedFrom # None /\ expired(StartedFrom[1], now))
          => (RefreshesOk(alast.path) >= 1
                /\ alast.creds[1].token # StartedFrom[1].token)
    /\ (alast.step # "none" /\ StartedFrom # None
           /\ expired(StartedFrom[1], now) /\ ~StartedFrom[1].refresh_token)
          => Raised

\* A call returned a refreshed token after starting from an expired one.
C16_Witness ==
    /\ Returned
    /\ StartedFrom # None
    /\ expired(StartedFrom[1], now)
    /\ alast.creds[1].expiry # None
    /\ Remaining(alast.creds[1]) > 0

\* The call that just ended got a new token from Google, by refresh or by
\* authorization.
GotNewToken ==
    /\ alast.step # "none"
    /\ \E i \in 1..Len(alast.path) : alast.path[i].ans.ok

\* C17: after a call that refreshed or authorized successfully, the token
\* file holds the token, refresh token and expiry of the cached credential.
C17_DiskMirrorsCache ==
    (GotNewToken /\ credentials_cache[alast.key] # None)
        => disk[alast.key] = Record(credentials_cache[alast.key][1])

\* The same, for calls that returned.
DiskMirrorsCacheOnReturn ==
    (GotNewToken /\ Returned)
        => disk[alast.key] = Record(credentials_cache[alast.key][1])

\* get_credentials at the point of loading, had the token file of `key`
\* been `file`.
LoadWith(key, file) ==
    get_credentials_load([AuthMgr EXCEPT !.disk = [@ EXCEPT ![key] = file]],
                         key, PREEMPTIVE_REFRESH_MINUTES, now)
\* The call that just ended found no cached credential and a token file it
\* could not read or parse.
FoundCorrupt ==
    /\ alast.step # "none"
    /\ CachedBefore = None
    /\ alast.pre[1].disk = Corrupt

\* C18: an unreadable or unparsable token file is treated as a missing
\* one: the call goes to interactive authorization and nowhere else, it
\* raises only if authorization or the saving of its result fails, and
\* otherwise the new credential is saved, cached and returned.
C18_CorruptAsAbsent ==
    /\ \A k \in Keys :
          LET c == LoadWith(k, Corrupt)
              a == LoadWith(k, Absent)
          IN  /\ c.at = "line79" /\ c.at = a.at /\ c.creds = a.creds
              /\ c.mgr.cc = a.mgr.cc /\ c.mgr.tec = a.mgr.tec
    /\ \A p \in Callers :
          (/\ inflight[p].at # "idle"
           /\ inflight[p].pre[1].cc = None
           /\ inflight[p].pre[1].disk = Corrupt) => inflight[p].at = "line79"
    /\ FoundCorrupt =>
          /\ Len(alast.path) = 1
          /\ alast.path[1].at = "line79"
          /\ Returned <=> (alast.path[1].ans.ok /\ alast.path[1].ans.saved)
          /\ Returned =>
                /\ alast.creds = Some(authorized(alast.creds[1].token,
                                                  alast.path[1].ans.lifetime,
                                                  now))
                /\ alast.creds[1].token = issued
                /\ credentials_cache[alast.key] = alast.creds
                /\ disk[alast.key] = Record(alast.creds[1])

\* A call met a corrupt token file, authorized, and returned the result.
C18_Witness == FoundCorrupt /\ Returned /\ Authorized(alast.path)

\* C19: while the lock is free, every cached credential that has an expiry
\* has exactly that expiry in the expiry cache.
C19_ExpiryCacheConsistent ==
    refresh_lock = 0 =>
        \A k \in Keys :
            (credentials_cache[k] # None
               /\ credentials_cache[k][1].expiry # None)
                => token_expiry_cache[k] = credentials_cache[k][1].expiry

(* ----------------------- claims about the tool layer ------------------- *)
\* Step x comes before step y in a tool call's steps, if both are there.
Precedes(steps, x, y) ==
    \A i, j \in 1..Len(steps) : (steps[i] = x /\ steps[j] = y) => i < j
\* Rate limit first, then credentials, then the breaker and the request.
InOrder(steps) ==
    /\ Precedes(steps, "acquire", "credentials")
    /\ Precedes(steps, "acquire", "breaker")
    /\ Precedes(steps, "credentials", "breaker")
    /\ Precedes(steps, "breaker", "request")

\* C20: every tool call acquires the rate limit, then the credentials,
\* then passes the breaker and makes the API request; the breaker records
\* a failure only for an error of that request.
C20_CallOrder ==
    /\ \A p \in Callers : InOrder(tcalls[p].steps)
    /\ InOrder(tlast.steps)
    /\ tlast.recorded = "failure" => tlast.error = "api"

(* ------------- claims about the circuit breaker under concurrency ------- *)
\* The callers whose admitted operation has not ended yet.
InFlight == {p \in Callers : pc[p] # "idle"}

(* C21: self._lock is never held while the wrapped operation executes:
   while an admitted call's operation is in flight the lock is free, every
   other caller can go through admission or rejection at once, and every
   call in flight can record its outcome at once. *)
C21_LockNotHeldDuringOperation ==
    InFlight # {} =>
        /\ lock_free
        /\ \A q \in Callers \ InFlight : ENABLED Call(q)
        /\ \A q \in InFlight : ENABLED OpReturn(q) /\ ENABLED OpRaise(q)

\* While caller 1's operation, admitted when the breaker was CLOSED, is
\* still running two ticks later, caller 2 has just been turned away.
C21_Witness ==
    /\ pc[1] = "direct"
    /\ now >= 2
    /\ last.who = 2
    /\ last.op = "not_invoked"

(* C22: in every reachable state, under any interleaving of calls,
   half_open_request_count is 0 when the breaker is CLOSED or OPEN, and
   between 0 and half_open_max_requests when it is HALF_OPEN. *)
C22_ProbeCounterRange ==
    /\ cb.state \in {CLOSED, OPEN} => cb.half_open_request_count = 0
    /\ cb.state = HALF_OPEN =>
          /\ 0 <= cb.half_open_request_count
          /\ cb.half_open_request_count <= config.half_open_max_requests

\* A probe fails after the whole budget of two probes was handed out, and
\* the breaker, open again, has forgotten them.
C22_Witness ==
    /\ last.op = "raised"
    /\ last.pre.state = HALF_OPEN
    /\ last.pre.half_open_request_count = 2
    /\ config.half_open_max_requests = 2
    /\ cb.state = OPEN

(* C23: in CLOSED failure_count counts the failures recorded in a row: a
   recorded success sets it to 0, a CLOSED breaker always has
   failure_count < failure_threshold, and it opens only on the failure
   that completes failure_threshold failures recorded with no success
   between them. *)
C23_ConsecutiveFailures ==
    /\ cb.state = CLOSED =>
          /\ cb.failure_count < config.failure_threshold
          /\ cb.failure_count = streak.fail
    /\ last.op = "returned" => cb.failure_count = 0
    /\ (last.op # "none" /\ last.pre.state = CLOSED /\ cb.state # CLOSED) =>
          /\ last.op = "raised"
          /\ cb.state = OPEN
          /\ streak.fail = config.failure_threshold

\* A success recorded in CLOSED after one failure, with a threshold of
\* two, has set failure_count back to 0.
C23_Witness ==
    /\ config.failure_threshold = 2
    /\ last.op = "returned"
    /\ last.pre.state = CLOSED
    /\ last.pre.failure_count = 1
    /\ cb.state = CLOSED
    /\ cb.failure_count = 0

(* ------------------ more claims about the rate limiter ----------------- *)
(* C24: the delay acquire imposes in the per-minute path, wait_seconds =
   last_minute_reset + one minute - now, is never negative and never more
   than one minute, the minute window having just been rolled over if more
   than a minute had passed. *)
C24_WaitWithinMinute ==
    (IsEnter /\ rlast.outcome = "sleep") =>
        /\ ~MinuteRolled
        /\ rlast.wait_seconds
              = rlast.pre.last_minute_reset + MinuteTicks - now
        /\ 0 <= rlast.wait_seconds
        /\ rlast.wait_seconds <= MinuteTicks

\* An acquire arriving exactly one minute after the window started, its
\* quota used up, sleeps for 0 seconds.
C24_Witness ==
    /\ IsEnter
    /\ rlast.outcome = "sleep"
    /\ now - rlast.pre.last_minute_reset = MinuteTicks
    /\ rlast.wait_seconds = 0

(* -------------- more claims about PreemptiveAuthManager ---------------- *)
(* C25: get_credentials starts interactive authorization only when the key
   has no loadable token file (and then nothing is cached for it either);
   a cached or persisted credential is never deleted, and a call for a key
   that had one when it began never goes through authorization, also not
   after a pre-emptive refresh of the cached credential. *)
C25_AuthorizeOnlyWithoutRecord ==
    /\ \A k \in Keys :
          credentials_cache[k] # None => _load_credentials(disk, k) # None
    /\ \A p \in Callers :
          LET c == inflight[p] IN
          /\ c.at = "line79" =>
                /\ _load_credentials(disk, c.key) = None
                /\ c.pre[1].cc = None
                /\ c.pre[1].disk.kind # "record"
          /\ (c.at # "idle" /\ c.pre[1].disk.kind = "record") =>
                disk[c.key].kind = "record"
    /\ alast.step # "none" =>
          /\ Authorized(alast.path) =>
                /\ CachedBefore = None
                /\ alast.pre[1].disk.kind # "record"
                /\ Len(alast.path) = 1
          /\ CachedBefore # None => credentials_cache[alast.key] # None
          /\ alast.pre[1].disk.kind = "record" =>
                disk[alast.key].kind = "record"

\* A call that began with a cached credential, refreshed it pre-emptively
\* (line 60) and went on to read the token file has returned without
\* authorization.
C25_Witness ==
    /\ Returned
    /\ CachedBefore # None
    /\ Len(alast.path) >= 1
    /\ alast.path[1].at = "line60"
    /\ ~Authorized(alast.path)

(* ---------------- claims about recovery of the breaker ----------------- *)
\* The outage is over and the breaker is probing.
Probing == cb.state = HALF_OPEN /\ now >= OutageEnd

(* C26: recovery is live for every configuration the program uses: with
   calls arriving for ever and every admitted operation returning
   normally, a breaker that is HALF_OPEN eventually becomes CLOSED. *)
C26_RecoveryLive == Probing ~> (cb.state = CLOSED)

\* What does hold: recovery is live when the probe budget of an episode is
\* at least the number of successes needed to close.
RecoveryLiveWithinBudget ==
    (Probing /\ config.half_open_max_requests >= config.success_threshold)
        ~> (cb.state = CLOSED)

(* C27: a HALF_OPEN breaker closes only on the strength of probes admitted
   in the current episode: the success of a call admitted earlier (while
   CLOSED, or as a probe of an earlier episode) that is recorded during
   the episode is not counted towards success_threshold. *)
C27_OnlyCurrentProbesCount ==
    (last.op = "returned" /\ last.pre.state = HALF_OPEN
        /\ last.how \in {"direct", "stale"}) =>
        /\ cb.state = HALF_OPEN
        /\ cb.success_count = last.pre.success_count

(* C28: while the breaker is OPEN its last_failure_time does not change:
   no step that finds it OPEN and leaves it OPEN, in particular the
   recording of a failure of a call admitted before it opened, moves the
   time from which recovery_timeout is counted. *)
C28_OpenSinceUnchanged ==
    (last.op # "none" /\ last.pre.state = OPEN /\ cb.state = OPEN) =>
        cb.last_failure_time = last.pre.last_failure_time

\* The probes of the current episode whose operation is still running.
ProbesInFlight == {p \in Callers : pc[p] = "probe"}

(* C29: every admitted call records one outcome before it ends, whether
   its operation returned, raised or was cancelled: the end of a call
   leaves _state as _record_success or _record_failure makes it, and in
   HALF_OPEN every probe slot handed out belongs to a probe still running
   or to a success already counted. *)
C29_OneOutcomePerCall ==
    /\ last.op \in {"returned", "raised", "cancelled"} =>
          \/ cb = _record_success(last.pre, config)
          \/ cb = _record_failure(last.pre, config, now)
    /\ cb.state = HALF_OPEN =>
          cb.half_open_request_count
              <= cb.success_count + Cardinality(ProbesInFlight)

(* ------------------- more claims about the tool layer ------------------ *)
\* The tool call that just ended made its request to the API and did not
\* get a result from it.
RequestFailed ==
    /\ \E i \in 1..Len(tlast.steps) : tlast.steps[i] = "request"
    /\ tlast.ret # "result"

(* C30: every publish_video upload that fails with an error of the YouTube
   API is recorded as a failure by the youtube_upload breaker, never as a
   success that sets failure_count back to 0. *)
C30_FailedUploadRecorded ==
    (tlast.tool = "publish_video" /\ RequestFailed) =>
        tlast.recorded = "failure"

============================================================================
